---- MODULE Spec2Model ----
(***************************************************************************)
(* State-machine model of the blog backend's request handlers:             *)
(*   posts    : posts_get, post_get, post_post, post_put, post_delete      *)
(*   comments : comments_get, comment_get, comment_post, comment_put,      *)
(*              comment_delete                                             *)
(* Every await on the document store is one atomic step of a request; the  *)
(* steps of different requests interleave freely.                          *)
(*                                                                         *)
(* Encodings.                                                              *)
(*   text      <<sp, len>>  : a string with sp surrounding blanks and len  *)
(*                            other characters; <<>> is undefined          *)
(*   email     <<sp, len, ok>> : a text whose core has e-mail shape iff ok *)
(*   topic name <<sp, n>>   : the name n (a string) with sp blanks around  *)
(*   query int <<n>>        : the decimal string of n; <<0, 0>> is a query *)
(*                            string that is no integer; <<>> is absent    *)
(*   ObjectId  1, 2, ...    ; BadId is a string that is no ObjectId        *)
(***************************************************************************)
EXTENDS Integers, Sequences, FiniteSets, TLC

\* ---------------------------------------------------------------- bounds
MaxReqs == 2        \* requests accepted in one behaviour
MaxDocs == 4        \* documents in the store of the listing specification
MaxFetch == 2       \* largest configured MAX_DOCS_PER_FETCH

VARIABLES
  posts,              \* Post collection: _id -> document
  topics,             \* Topic collection, in natural (insertion) order
  comments,           \* Comment collection: _id -> document
  users,              \* User collection: _id -> user_posts
  now,                \* the clock read by new Date()
  MAX_DOCS_PER_FETCH, \* process.env.MAX_DOCS_PER_FETCH
  lastId,             \* per collection: the last ObjectId handed out
  reqs,               \* per connection: the request in flight, or its response
  accepted            \* number of requests accepted so far

vars == <<posts, topics, comments, users, now, lastId, MAX_DOCS_PER_FETCH, reqs, accepted>>
store == <<posts, topics, comments, users>>

Conns == {1, 2}
Users == {"u1", "u2"}
NoUser == "anonymous"
BadId == 0
Undefined == <<>>

\* ------------------------------------------------- express-validator chain
\* .trim(): the standard sanitizers stringify first, undefined becomes ""
Trim(t) ==
  IF t = Undefined THEN <<0, 0>>
  ELSE IF Len(t) = 3 THEN <<0, t[2], t[3]>> ELSE <<0, t[2]>>

StrLen(t) == t[1] + t[2]

\* .isLength({min, max}); max < 0 stands for "no max given"
IsLength(t, min, max) == StrLen(t) >= min /\ (max < 0 \/ StrLen(t) <= max)

\* .isEmail()
IsEmail(t) == Len(t) = 3 /\ t[1] = 0 /\ t[3]

\* mongoose.Types.ObjectId.isValid
IsValidObjectId(v) == v # BadId

\* .isInt() on a query string
IsInt(q) == Len(q) = 1

\* Number(q) of a query value: NaN is modelled by making every comparison false
IsNaN(q) == Len(q) # 1


\* ------------------------------------------------------------ the store
NoDoc == <<>>

\* a lookup that never finds the topic
TopicByName_Miss(name) == NoDoc

\* Topic.findOne({ name }): the first match in natural order, or null
TopicByName(name) ==
  LET hits == {i \in 1..Len(topics) : topics[i].name = name}
  IN IF hits = {} THEN NoDoc
     ELSE <<topics[CHOOSE i \in hits : \A j \in hits : i <= j].id>>

\* Topic.findOne({ _id })
TopicById(id) ==
  IF \E i \in 1..Len(topics) : topics[i].id = id THEN <<id>> ELSE NoDoc

\* new mongoose.Types.ObjectId() of a new document: never handed out before
FreshId(coll) == lastId[coll] + 1

\* ------------------------------------------------------------- requests
Idle ==
  [kind |-> "none", pc |-> "idle", user |-> NoUser, postid |-> BadId,
   commentid |-> BadId, title |-> Undefined, body |-> Undefined,
   topic |-> Undefined, email |-> Undefined, limit |-> Undefined,
   page |-> Undefined, errors |-> {}, docCount |-> 0, skip |-> 0,
   status |-> 0, result |-> <<>>, ran |-> FALSE, wrote |-> FALSE,
   seq |-> 0, asked |-> Undefined, made |-> FALSE,
   qlimit |-> Undefined, qpage |-> Undefined, userid |-> ""]
\* ran: the handler's store operation was executed; wrote: the request changed
\* the store; seq: the order of acceptance; asked: the topic name a POST /posts
\* asked for; made: its topic sanitizer inserted a Topic; qlimit, qpage: the
\* limit and page of the query string as sent (limit, page: as sanitized)

\* a connection takes a request when it is free; connections are taken in order
CanAccept(c) ==
  /\ reqs[c].pc = "idle"
  /\ accepted < MaxReqs
  /\ \A d \in Conns : d < c => reqs[d].pc # "idle"

Accept(c, req) ==
  /\ reqs' = [reqs EXCEPT ![c] = [req EXCEPT !.seq = accepted + 1]]
  /\ accepted' = accepted + 1

Step(c, req) ==
  /\ reqs' = [reqs EXCEPT ![c] = req]
  /\ UNCHANGED accepted

\* res.status(n).json(...) / res.sendStatus(n) / res.json(...)
Respond(req, status, result) ==
  [req EXCEPT !.pc = "done", !.status = status, !.result = result]

\* passport.authenticate('jwt', { session: false }): 401 ends the chain
Unauthorized(kind) == Respond([Idle EXCEPT !.kind = kind], 401, <<>>)

\* the response is sent and the connection is free again
Retire(c) ==
  /\ reqs[c].pc = "done"
  /\ reqs' = [reqs EXCEPT ![c] = Idle]
  /\ UNCHANGED <<store, now, lastId, MAX_DOCS_PER_FETCH, accepted>>

\* --------------------------------------------------------------- inputs
Principals == Users \cup {NoUser}
PostIdInputs == {BadId, 1, 2}
PostTitleInputs == {<<1, 3>>, <<2, 2>>}
PostBodyInputs == {<<0, 100>>, <<1, 99>>}
TopicNameInputs == {<<0, "a">>, <<1, "a">>}
PutTitleInputs == {Undefined, <<0, 4>>, <<2, 2>>}
PutBodyInputs == {Undefined, <<0, 101>>}
PutTopicInputs == {Undefined, <<1>>, <<2>>, <<BadId>>}

\* the errors of a validation chain: the fields whose rule is unmet
Errs(field, bad) == IF bad THEN {field} ELSE {}

\* ------------------------------------------------------------ post_get
post_get_arrive(c) ==
  /\ CanAccept(c)
  /\ \E postid \in PostIdInputs :
       Accept(c, [Idle EXCEPT !.kind = "post_get", !.pc = "handler",
                              !.postid = postid,
                              !.errors = Errs("postid", ~IsValidObjectId(postid))])
  /\ UNCHANGED <<store, now, lastId, MAX_DOCS_PER_FETCH>>

post_get_handler(c) ==
  LET req == reqs[c] IN
  /\ req.kind = "post_get" /\ req.pc = "handler"
  /\ IF req.errors # {}
       THEN Step(c, Respond(req, 400, <<>>))
       ELSE IF req.postid \notin DOMAIN posts
         THEN Step(c, Respond([req EXCEPT !.ran = TRUE], 404, <<>>))
         ELSE Step(c, Respond([req EXCEPT !.ran = TRUE], 200, <<req.postid>>))
  /\ UNCHANGED <<store, now, lastId, MAX_DOCS_PER_FETCH>>

\* ----------------------------------------------------------- post_post
\* authentication and the title and body chains: no store access
post_post_arrive(c) ==
  /\ CanAccept(c)
  /\ \E user \in Principals, title \in PostTitleInputs,
        body \in PostBodyInputs, topic \in TopicNameInputs :
       IF user = NoUser
         THEN Accept(c, Unauthorized("post_post"))
         ELSE Accept(c, [Idle EXCEPT
                !.kind = "post_post", !.pc = "topicFind", !.user = user,
                !.title = Trim(title), !.body = Trim(body), !.topic = Trim(topic),
                !.asked = Trim(topic),
                !.errors = Errs("title", ~IsLength(Trim(title), 3, 100))
                           \cup Errs("body", ~IsLength(Trim(body), 100, 10000))])
  /\ UNCHANGED <<store, now, lastId, MAX_DOCS_PER_FETCH>>

\* topic sanitizer, first await: Topic.findOne({ name: value })
post_post_topicFind(c) ==
  LET req == reqs[c]
      topic == TopicByName(req.topic)
  IN
  /\ req.kind = "post_post" /\ req.pc = "topicFind"
  /\ IF topic = NoDoc
       THEN Step(c, [req EXCEPT !.pc = "topicSave"])
       ELSE Step(c, [req EXCEPT !.pc = "handler", !.topic = topic])
  /\ UNCHANGED <<store, now, lastId, MAX_DOCS_PER_FETCH>>

\* the insert of topic.save()
InsertTopic(id, name) == Append(topics, [id |-> id, name |-> name])

\* topic sanitizer, second await: new Topic({ name: value }).save()
post_post_topicSave(c) ==
  LET req == reqs[c]
      id == FreshId("topic")
  IN
  /\ req.kind = "post_post" /\ req.pc = "topicSave"
  /\ topics' = InsertTopic(id, req.topic)
  /\ lastId' = [lastId EXCEPT !["topic"] = id]
  /\ Step(c, [req EXCEPT !.pc = "handler", !.topic = <<id>>, !.wrote = TRUE,
                         !.made = TRUE])
  /\ UNCHANGED <<posts, comments, users, now, MAX_DOCS_PER_FETCH>>

\* the document of new Post(postDetail)
NewPost(req) ==
  [author |-> req.user, title |-> req.title, body |-> req.body,
   topic |-> req.topic[1], date |-> now, comments |-> <<>>]

\* the handler up to its first await: newPost.save()
post_post_handler(c) ==
  LET req == reqs[c]
      id == FreshId("post")
  IN
  /\ req.kind = "post_post" /\ req.pc = "handler"
  /\ IF req.errors # {}
       THEN /\ Step(c, Respond(req, 400, <<>>))
            /\ UNCHANGED <<posts, now, lastId>>
       ELSE /\ posts' = (id :> NewPost(req)) @@ posts
            /\ lastId' = [lastId EXCEPT !["post"] = id]
            /\ now' = now + 1
            /\ Step(c, [req EXCEPT !.pc = "userSave", !.result = <<id>>,
                                   !.ran = TRUE, !.wrote = TRUE])
  /\ UNCHANGED <<topics, comments, users, MAX_DOCS_PER_FETCH>>

\* user.user_posts.push(savedPost); await user.save(); res.json(savedPost)
post_post_userSave(c) ==
  LET req == reqs[c] IN
  /\ req.kind = "post_post" /\ req.pc = "userSave"
  /\ users' = [users EXCEPT ![req.user] = Append(@, req.result[1])]
  /\ Step(c, Respond(req, 200, req.result))
  /\ UNCHANGED <<posts, topics, comments, now, lastId, MAX_DOCS_PER_FETCH>>

\* ------------------------------------------------------------ post_put
\* optional(): an undefined field skips the rest of its chain
OptTrim(t) == IF t = Undefined THEN Undefined ELSE Trim(t)

\* authentication and the postid, title and body chains: no store access;
\* the topic chain reads the store only for a well-formed id
post_put_arrive(c) ==
  /\ CanAccept(c)
  /\ \E user \in Principals, postid \in PostIdInputs, title \in PutTitleInputs,
        body \in PutBodyInputs, topic \in PutTopicInputs :
       IF user = NoUser
         THEN Accept(c, Unauthorized("post_put"))
         ELSE Accept(c, [Idle EXCEPT
                !.kind = "post_put", !.user = user, !.postid = postid,
                !.title = OptTrim(title), !.body = OptTrim(body), !.topic = topic,
                !.pc = IF topic # Undefined /\ IsValidObjectId(topic[1])
                         THEN "topicCheck" ELSE "handler",
                !.errors =
                  Errs("postid", ~IsValidObjectId(postid))
                  \cup Errs("title", title # Undefined /\ ~IsLength(Trim(title), 3, 100))
                  \cup Errs("body", body # Undefined /\ ~IsLength(Trim(body), 100, 10000))
                  \cup Errs("topic", topic # Undefined /\ ~IsValidObjectId(topic[1]))])
  /\ UNCHANGED <<store, now, lastId, MAX_DOCS_PER_FETCH>>

\* topic validator: Topic.findOne({ _id: value }), 'Invalid topic' if null
post_put_topicCheck(c) ==
  LET req == reqs[c] IN
  /\ req.kind = "post_put" /\ req.pc = "topicCheck"
  /\ Step(c, [req EXCEPT !.pc = "handler",
                         !.errors = @ \cup Errs("topic", TopicById(req.topic[1]) = NoDoc)])
  /\ UNCHANGED <<store, now, lastId, MAX_DOCS_PER_FETCH>>

\* a guard that lets every principal through
IsOwner_Anyone(post, user) == TRUE

\* the ownership guard: postById.author._id.equals(req.user._id)
IsOwner(post, user) == post.author = user

\* the status decided after Post.findById: 0 stands for "go on"
GuardStatus(postid, user) ==
  IF postid \notin DOMAIN posts THEN 404
  ELSE IF ~IsOwner(posts[postid], user) THEN 403
  ELSE 0

\* the handler up to its second await: Post.findById, existence, ownership
post_put_handler(c) ==
  LET req == reqs[c]
      status == GuardStatus(req.postid, req.user)
  IN
  /\ req.kind = "post_put" /\ req.pc = "handler"
  /\ IF req.errors # {}
       THEN Step(c, Respond(req, 400, <<>>))
       ELSE IF status # 0
         THEN Step(c, Respond([req EXCEPT !.ran = TRUE], status, <<>>))
         ELSE Step(c, [req EXCEPT !.pc = "update", !.ran = TRUE])
  /\ UNCHANGED <<store, now, lastId, MAX_DOCS_PER_FETCH>>

\* an update that writes the undefined keys too
ApplyUpdate_All(post, req) ==
  [post EXCEPT !.title = req.title, !.body = req.body,
               !.topic = IF req.topic = Undefined THEN BadId ELSE req.topic[1]]

\* the update document { title, body, topic }: undefined keys are dropped
ApplyUpdate(post, req) ==
  [post EXCEPT
     !.title = IF req.title = Undefined THEN @ ELSE req.title,
     !.body = IF req.body = Undefined THEN @ ELSE req.body,
     !.topic = IF req.topic = Undefined THEN @ ELSE req.topic[1]]

\* Post.findByIdAndUpdate(postid, postDetail, { new: true }); res.json
post_put_update(c) ==
  LET req == reqs[c] IN
  /\ req.kind = "post_put" /\ req.pc = "update"
  /\ IF req.postid \in DOMAIN posts
       THEN /\ posts' = [posts EXCEPT ![req.postid] = ApplyUpdate(@, req)]
            /\ Step(c, Respond([req EXCEPT !.wrote = TRUE], 200, <<req.postid>>))
       ELSE /\ UNCHANGED posts
            /\ Step(c, Respond(req, 200, <<>>))
  /\ UNCHANGED <<topics, comments, users, now, lastId, MAX_DOCS_PER_FETCH>>

\* --------------------------------------------------------- post_delete
post_delete_arrive(c) ==
  /\ CanAccept(c)
  /\ \E user \in Principals, postid \in PostIdInputs :
       IF user = NoUser
         THEN Accept(c, Unauthorized("post_delete"))
         ELSE Accept(c, [Idle EXCEPT
                !.kind = "post_delete", !.pc = "handler", !.user = user,
                !.postid = postid,
                !.errors = Errs("postid", ~IsValidObjectId(postid))])
  /\ UNCHANGED <<store, now, lastId, MAX_DOCS_PER_FETCH>>

\* the handler up to its second await: Post.findById, existence, ownership
post_delete_handler(c) ==
  LET req == reqs[c]
      status == GuardStatus(req.postid, req.user)
  IN
  /\ req.kind = "post_delete" /\ req.pc = "handler"
  /\ IF req.errors # {}
       THEN Step(c, Respond(req, 400, <<>>))
       ELSE IF status # 0
         THEN Step(c, Respond([req EXCEPT !.ran = TRUE], status, <<>>))
         ELSE Step(c, [req EXCEPT !.pc = "delete", !.ran = TRUE])
  /\ UNCHANGED <<store, now, lastId, MAX_DOCS_PER_FETCH>>

\* the collection without the document _id
Without(coll, id) == [k \in DOMAIN coll \ {id} |-> coll[k]]

\* postById.deleteOne(); res.json(deletedPost)
post_delete_delete(c) ==
  LET req == reqs[c] IN
  /\ req.kind = "post_delete" /\ req.pc = "delete"
  /\ posts' = Without(posts, req.postid)
  /\ Step(c, Respond([req EXCEPT !.wrote = (req.postid \in DOMAIN posts)],
                     200, <<req.postid>>))
  /\ UNCHANGED <<topics, comments, users, now, lastId, MAX_DOCS_PER_FETCH>>

\* --------------------------------------------------------- comment_get
CommentIdInputs == {BadId, 1, 2}
EmailInputs == {<<1, 8, TRUE>>, <<0, 8, FALSE>>}
CommentTitleInputs == {<<1, 3>>, <<2, 2>>}
CommentBodyInputs == {<<0, 300>>, <<1, 9>>}
PutEmailInputs == {Undefined, <<0, 8, TRUE>>, <<0, 12, TRUE>>}
PutCommentTitleInputs == {Undefined, <<0, 4>>, <<2, 2>>}
PutCommentBodyInputs == {Undefined, <<0, 11>>}

\* the errors of the postid and commentid chains
IdErrs(postid, commentid) ==
  Errs("postid", ~IsValidObjectId(postid))
  \cup Errs("commentid", ~IsValidObjectId(commentid))

comment_get_arrive(c) ==
  /\ CanAccept(c)
  /\ \E postid \in PostIdInputs, commentid \in CommentIdInputs :
       Accept(c, [Idle EXCEPT !.kind = "comment_get", !.pc = "handler",
                              !.postid = postid, !.commentid = commentid,
                              !.errors = IdErrs(postid, commentid)])
  /\ UNCHANGED <<store, now, lastId, MAX_DOCS_PER_FETCH>>

\* a comment that matches the filter { _id: commentid, post: postid }
Matches(commentid, postid) ==
  commentid \in DOMAIN comments /\ comments[commentid].post = postid

comment_get_handler(c) ==
  LET req == reqs[c] IN
  /\ req.kind = "comment_get" /\ req.pc = "handler"
  /\ IF req.errors # {}
       THEN Step(c, Respond(req, 400, <<>>))
       ELSE IF ~Matches(req.commentid, req.postid)
         THEN Step(c, Respond([req EXCEPT !.ran = TRUE], 404, <<>>))
         ELSE Step(c, Respond([req EXCEPT !.ran = TRUE], 200, <<req.commentid>>))
  /\ UNCHANGED <<store, now, lastId, MAX_DOCS_PER_FETCH>>

\* -------------------------------------------------------- comment_post
\* isLength({ min: 10, maxLength: 280 }) names no max: there is none
NoMax == -1

comment_post_arrive(c) ==
  /\ CanAccept(c)
  /\ \E postid \in PostIdInputs, email \in EmailInputs,
        title \in CommentTitleInputs, body \in CommentBodyInputs :
       Accept(c, [Idle EXCEPT
         !.kind = "comment_post", !.pc = "handler", !.postid = postid,
         !.email = Trim(email), !.title = Trim(title), !.body = Trim(body),
         !.errors =
           Errs("postid", ~IsValidObjectId(postid))
           \cup Errs("email", ~(IsEmail(Trim(email)) /\ IsLength(Trim(email), 3, 100)))
           \cup Errs("title", ~IsLength(Trim(title), 3, 100))
           \cup Errs("body", ~IsLength(Trim(body), 10, NoMax))])
  /\ UNCHANGED <<store, now, lastId, MAX_DOCS_PER_FETCH>>

\* the handler up to its second await: Post.findById(postid)
comment_post_handler(c) ==
  LET req == reqs[c] IN
  /\ req.kind = "comment_post" /\ req.pc = "handler"
  /\ IF req.errors # {}
       THEN Step(c, Respond(req, 400, <<>>))
       ELSE IF req.postid \notin DOMAIN posts
         THEN Step(c, Respond([req EXCEPT !.ran = TRUE], 404, <<>>))
         ELSE Step(c, [req EXCEPT !.pc = "saveComment", !.ran = TRUE])
  /\ UNCHANGED <<store, now, lastId, MAX_DOCS_PER_FETCH>>

\* the document of new Comment(commentDetail)
NewComment(req) ==
  [post |-> req.postid, email |-> req.email, title |-> req.title,
   body |-> req.body, date |-> now]

\* await newComment.save()
comment_post_saveComment(c) ==
  LET req == reqs[c]
      id == FreshId("comment")
  IN
  /\ req.kind = "comment_post" /\ req.pc = "saveComment"
  /\ comments' = (id :> NewComment(req)) @@ comments
  /\ lastId' = [lastId EXCEPT !["comment"] = id]
  /\ now' = now + 1
  /\ Step(c, [req EXCEPT !.pc = "savePost", !.result = <<id>>, !.wrote = TRUE])
  /\ UNCHANGED <<posts, topics, users, MAX_DOCS_PER_FETCH>>

\* post.comments.push(savedComment); await post.save(): the save of a
\* document that is no longer stored rejects, and the rejection becomes a 500
comment_post_savePost(c) ==
  LET req == reqs[c] IN
  /\ req.kind = "comment_post" /\ req.pc = "savePost"
  /\ IF req.postid \in DOMAIN posts
       THEN /\ posts' = [posts EXCEPT ![req.postid].comments = Append(@, req.result[1])]
            /\ Step(c, Respond(req, 200, req.result))
       ELSE /\ UNCHANGED posts
            /\ Step(c, Respond(req, 500, <<>>))
  /\ UNCHANGED <<topics, comments, users, now, lastId, MAX_DOCS_PER_FETCH>>

\* --------------------------------------------------------- comment_put
comment_put_arrive(c) ==
  /\ CanAccept(c)
  /\ \E postid \in PostIdInputs, commentid \in CommentIdInputs,
        email \in PutEmailInputs, title \in PutCommentTitleInputs,
        body \in PutCommentBodyInputs :
       Accept(c, [Idle EXCEPT
         !.kind = "comment_put", !.pc = "handler",
         !.postid = postid, !.commentid = commentid,
         !.email = OptTrim(email), !.title = OptTrim(title), !.body = OptTrim(body),
         !.errors =
           IdErrs(postid, commentid)
           \cup Errs("email", email # Undefined
                       /\ ~(IsEmail(Trim(email)) /\ IsLength(Trim(email), 3, 10)))
           \cup Errs("title", title # Undefined /\ ~IsLength(Trim(title), 3, 100))
           \cup Errs("body", body # Undefined /\ ~IsLength(Trim(body), 10, NoMax))])
  /\ UNCHANGED <<store, now, lastId, MAX_DOCS_PER_FETCH>>

\* if (!errors.array()): an array, empty or not, is truthy
RejectsPut(errors) == FALSE

\* the update document { email, title, body }: undefined keys are dropped
ApplyCommentUpdate(comment, req) ==
  [comment EXCEPT
     !.email = IF req.email = Undefined THEN @ ELSE req.email,
     !.title = IF req.title = Undefined THEN @ ELSE req.title,
     !.body = IF req.body = Undefined THEN @ ELSE req.body]

\* Comment.findOneAndUpdate({ _id, post }, commentDetail, { new: true }); an
\* id that is no ObjectId fails the cast of the filter: the query rejects
comment_put_handler(c) ==
  LET req == reqs[c] IN
  /\ req.kind = "comment_put" /\ req.pc = "handler"
  /\ IF RejectsPut(req.errors)
       THEN /\ Step(c, Respond(req, 400, <<>>))
            /\ UNCHANGED comments
       ELSE IF ~IsValidObjectId(req.commentid) \/ ~IsValidObjectId(req.postid)
         THEN /\ Step(c, Respond([req EXCEPT !.ran = TRUE], 500, <<>>))
              /\ UNCHANGED comments
         ELSE IF ~Matches(req.commentid, req.postid)
           THEN /\ Step(c, Respond([req EXCEPT !.ran = TRUE], 404, <<>>))
                /\ UNCHANGED comments
           ELSE /\ comments' = [comments EXCEPT
                                  ![req.commentid] = ApplyCommentUpdate(@, req)]
                /\ Step(c, Respond([req EXCEPT !.ran = TRUE, !.wrote = TRUE],
                                   200, <<req.commentid>>))
  /\ UNCHANGED <<posts, topics, users, now, lastId, MAX_DOCS_PER_FETCH>>

\* ------------------------------------------------------ comment_delete
comment_delete_arrive(c) ==
  /\ CanAccept(c)
  /\ \E postid \in PostIdInputs, commentid \in CommentIdInputs :
       Accept(c, [Idle EXCEPT !.kind = "comment_delete", !.pc = "handler",
                              !.postid = postid, !.commentid = commentid,
                              !.errors = IdErrs(postid, commentid)])
  /\ UNCHANGED <<store, now, lastId, MAX_DOCS_PER_FETCH>>

\* Comment.findByIdAndDelete({ _id: commentid, post: postid }): the argument
\* is cast to an ObjectId, which takes its _id; the post is not a filter
comment_delete_handler(c) ==
  LET req == reqs[c] IN
  /\ req.kind = "comment_delete" /\ req.pc = "handler"
  /\ IF req.errors # {}
       THEN /\ Step(c, Respond(req, 400, <<>>))
            /\ UNCHANGED comments
       ELSE IF req.commentid \notin DOMAIN comments
         THEN /\ Step(c, Respond([req EXCEPT !.ran = TRUE], 404, <<>>))
              /\ UNCHANGED comments
         ELSE /\ comments' = Without(comments, req.commentid)
              /\ Step(c, Respond([req EXCEPT !.ran = TRUE, !.wrote = TRUE],
                                 200, <<req.commentid>>))
  /\ UNCHANGED <<posts, topics, users, now, lastId, MAX_DOCS_PER_FETCH>>

\* ------------------------------------------------------------ listing
LimitInputs == {Undefined, <<0, 0>>, <<-1>>, <<0>>, <<1>>, <<20>>, <<21>>}
PageInputs == {Undefined, <<0, 0>>} \cup {<<n>> : n \in -1..(MaxDocs + 1)}
TopicQueryInputs == {Undefined, <<1, "a">>, <<0, "b">>}
UserIdInputs == {"", "u1"}

\* .default(d): an absent query parameter takes the default
Default(q, d) == IF q = Undefined THEN <<d>> ELSE q

\* Math.ceil(a / b)
Ceil(a, b) == (a + b - 1) \div b

\* the limit sanitizer; a string that is no number fails both comparisons
SanitizeLimit(q) ==
  IF IsNaN(q) THEN q
  ELSE IF q[1] < 0 \/ q[1] > 20 THEN <<0>> ELSE q

\* a page sanitizer without the upper test
SanitizePage_NoUpper(q, docCount) ==
  IF IsNaN(q) THEN q
  ELSE IF q[1] < 0 THEN <<0>> ELSE <<q[1] - 1>>

\* the page sanitizer, given the count it awaited; --value of a string that
\* is no number is NaN
SanitizePage(q, docCount) ==
  IF IsNaN(q) THEN q
  ELSE IF q[1] < 0 \/ q[1] > Ceil(docCount, MAX_DOCS_PER_FETCH) THEN <<0>>
  ELSE <<q[1] - 1>>

Min(a, b) == IF a < b THEN a ELSE b

\* .skip(skip).limit(limit) of a cursor; for the store a limit of 0 is no limit
SkipLimit(docs, skip, limit) ==
  LET rest == SubSeq(docs, skip + 1, Len(docs))
  IN IF limit = 0 THEN rest ELSE SubSeq(rest, 1, Min(limit, Len(rest)))

\* the ids of S in ascending order: the natural order of a collection
RECURSIVE Ascending(_)
Ascending(S) ==
  IF S = {} THEN <<>>
  ELSE LET m == CHOOSE x \in S : \A y \in S : x <= y
       IN <<m>> \o Ascending(S \ {m})

\* .sort({ date: -1 }) of the posts S
RECURSIVE ByDateDesc(_)
ByDateDesc(S) ==
  IF S = {} THEN <<>>
  ELSE LET m == CHOOSE x \in S : \A y \in S :
                  \/ posts[x].date > posts[y].date
                  \/ posts[x].date = posts[y].date /\ x <= y
       IN <<m>> \o ByDateDesc(S \ {m})

\* ----------------------------------------------------------- posts_get
\* the limit chain: no store access
posts_get_arrive(c) ==
  /\ CanAccept(c)
  /\ \E limit \in LimitInputs, page \in PageInputs,
        topic \in TopicQueryInputs, userid \in UserIdInputs :
       Accept(c, [Idle EXCEPT
         !.kind = "posts_get", !.pc = "pageCount",
         !.qlimit = limit, !.qpage = page, !.userid = userid,
         !.topic = OptTrim(topic),
         !.limit = SanitizeLimit(Default(limit, MAX_DOCS_PER_FETCH)),
         !.page = Default(page, 1),
         !.errors = Errs("limit", ~IsInt(Default(limit, MAX_DOCS_PER_FETCH)))
                    \cup Errs("page", ~IsInt(Default(page, 1)))])
  /\ UNCHANGED <<store, now, lastId, MAX_DOCS_PER_FETCH>>

\* the page sanitizer: await Post.countDocuments()
posts_get_pageCount(c) ==
  LET req == reqs[c]
      docCount == Cardinality(DOMAIN posts)
  IN
  /\ req.kind = "posts_get" /\ req.pc = "pageCount"
  /\ Step(c, [req EXCEPT !.docCount = docCount,
                         !.page = SanitizePage(req.page, docCount),
                         !.pc = IF req.topic = Undefined THEN "handler"
                                                         ELSE "topicFind"])
  /\ UNCHANGED <<store, now, lastId, MAX_DOCS_PER_FETCH>>

\* the topic sanitizer: the id of the topic of that name, else the value if
\* it is an ObjectId, else undefined
posts_get_topicFind(c) ==
  LET req == reqs[c]
      topic == TopicByName(req.topic)
  IN
  /\ req.kind = "posts_get" /\ req.pc = "topicFind"
  /\ Step(c, [req EXCEPT !.pc = "handler",
                         !.topic = IF topic # NoDoc THEN topic
                                   ELSE IF Len(req.topic) = 1 THEN req.topic
                                   ELSE Undefined])
  /\ UNCHANGED <<store, now, lastId, MAX_DOCS_PER_FETCH>>

\* Post.find(queryOpts)
PostsMatching(topic, userid) ==
  {id \in DOMAIN posts :
     /\ topic # Undefined => posts[id].topic = topic[1]
     /\ userid # "" => posts[id].author = userid}

\* the handler: the store rejects a negative skip, and the rejection is a 500
posts_get_handler(c) ==
  LET req == reqs[c]
      skip == req.page[1] * MAX_DOCS_PER_FETCH
      found == ByDateDesc(PostsMatching(req.topic, req.userid))
  IN
  /\ req.kind = "posts_get" /\ req.pc = "handler"
  /\ IF req.errors # {}
       THEN Step(c, Respond(req, 400, <<>>))
       ELSE IF skip < 0
         THEN Step(c, Respond([req EXCEPT !.ran = TRUE, !.skip = skip], 500, <<>>))
         ELSE Step(c, Respond([req EXCEPT !.ran = TRUE, !.skip = skip], 200,
                              SkipLimit(found, skip, req.limit[1])))
  /\ UNCHANGED <<store, now, lastId, MAX_DOCS_PER_FETCH>>

\* -------------------------------------------------------- comments_get
\* the postid and limit chains: no store access
comments_get_arrive(c) ==
  /\ CanAccept(c)
  /\ \E postid \in PostIdInputs, limit \in LimitInputs, page \in PageInputs :
       Accept(c, [Idle EXCEPT
         !.kind = "comments_get", !.pc = "pageCount", !.postid = postid,
         !.qlimit = limit, !.qpage = page,
         !.limit = SanitizeLimit(Default(limit, MAX_DOCS_PER_FETCH)),
         !.page = Default(page, 1),
         !.errors = Errs("postid", ~IsValidObjectId(postid))
                    \cup Errs("limit", ~IsInt(Default(limit, MAX_DOCS_PER_FETCH)))])
  /\ UNCHANGED <<store, now, lastId, MAX_DOCS_PER_FETCH>>

\* Comment.find({ post: postid }) / countDocuments({ post: postid })
CommentsOf(postid) == {id \in DOMAIN comments : comments[id].post = postid}

\* the page sanitizer: it throws when an earlier chain has left an error, and
\* the throw ends the request with a 500; else it awaits the count
comments_get_pageCount(c) ==
  LET req == reqs[c]
      docCount == Cardinality(CommentsOf(req.postid))
  IN
  /\ req.kind = "comments_get" /\ req.pc = "pageCount"
  /\ IF req.errors # {}
       THEN Step(c, Respond(req, 500, <<>>))
       ELSE Step(c, [req EXCEPT !.docCount = docCount,
                               !.page = SanitizePage(req.page, docCount),
                               !.errors = Errs("page", ~IsInt(req.page)),
                               !.pc = "handler"])
  /\ UNCHANGED <<store, now, lastId, MAX_DOCS_PER_FETCH>>

comments_get_handler(c) ==
  LET req == reqs[c]
      skip == req.page[1] * MAX_DOCS_PER_FETCH
      found == Ascending(CommentsOf(req.postid))
  IN
  /\ req.kind = "comments_get" /\ req.pc = "handler"
  /\ IF req.errors # {}
       THEN Step(c, Respond(req, 400, <<>>))
       ELSE IF skip < 0
         THEN Step(c, Respond([req EXCEPT !.ran = TRUE, !.skip = skip], 500, <<>>))
         ELSE Step(c, Respond([req EXCEPT !.ran = TRUE, !.skip = skip], 200,
                              SkipLimit(found, skip, req.limit[1])))
  /\ UNCHANGED <<store, now, lastId, MAX_DOCS_PER_FETCH>>

\* ------------------------------------------------------- specification
NoDocs == [k \in {} |-> NoDoc]

Init ==
  /\ posts = NoDocs
  /\ topics = <<>>
  /\ comments = NoDocs
  /\ users = [u \in Users |-> <<>>]
  /\ now = 0
  /\ lastId = [post |-> 0, topic |-> 0, comment |-> 0]
  /\ MAX_DOCS_PER_FETCH = MaxFetch
  /\ reqs = [c \in Conns |-> Idle]
  /\ accepted = 0

PostNext ==
  \E c \in Conns :
    \/ post_get_arrive(c) \/ post_get_handler(c)
    \/ post_post_arrive(c) \/ post_post_topicFind(c) \/ post_post_topicSave(c)
    \/ post_post_handler(c) \/ post_post_userSave(c)
    \/ post_put_arrive(c) \/ post_put_topicCheck(c) \/ post_put_handler(c)
    \/ post_put_update(c)
    \/ post_delete_arrive(c) \/ post_delete_handler(c) \/ post_delete_delete(c)
    \/ Retire(c)

Spec == Init /\ [][PostNext]_vars

\* one request at a time: a connection moves only while no other is in flight
SeqNext ==
  \E c \in Conns :
    /\ \A d \in Conns \ {c} : reqs[d].pc \in {"idle", "done"}
    /\ \/ post_get_arrive(c) \/ post_get_handler(c)
       \/ post_post_arrive(c) \/ post_post_topicFind(c) \/ post_post_topicSave(c)
       \/ post_post_handler(c) \/ post_post_userSave(c)
       \/ post_put_arrive(c) \/ post_put_topicCheck(c) \/ post_put_handler(c)
       \/ post_put_update(c)
       \/ post_delete_arrive(c) \/ post_delete_handler(c) \/ post_delete_delete(c)
       \/ Retire(c)

SpecSeq == Init /\ [][SeqNext]_vars

\* the comment handlers, over a store that holds no post or one post of u1
InitComments ==
  /\ \/ /\ posts = NoDocs /\ topics = <<>>
        /\ users = [u \in Users |-> <<>>]
        /\ now = 0
        /\ lastId = [post |-> 0, topic |-> 0, comment |-> 0]
     \/ /\ posts = (1 :> [author |-> "u1", title |-> <<0, 3>>, body |-> <<0, 100>>,
                           topic |-> 1, date |-> 0, comments |-> <<>>])
        /\ topics = <<[id |-> 1, name |-> <<0, "a">>]>>
        /\ users = [u \in Users |-> IF u = "u1" THEN <<1>> ELSE <<>>]
        /\ now = 1
        /\ lastId = [post |-> 1, topic |-> 1, comment |-> 0]
  /\ comments = NoDocs
  /\ MAX_DOCS_PER_FETCH = MaxFetch
  /\ reqs = [c \in Conns |-> Idle]
  /\ accepted = 0

CommentNext ==
  \E c \in Conns :
    \/ comment_get_arrive(c) \/ comment_get_handler(c)
    \/ comment_post_arrive(c) \/ comment_post_handler(c)
    \/ comment_post_saveComment(c) \/ comment_post_savePost(c)
    \/ comment_put_arrive(c) \/ comment_put_handler(c)
    \/ comment_delete_arrive(c) \/ comment_delete_handler(c)
    \/ post_delete_arrive(c) \/ post_delete_handler(c) \/ post_delete_delete(c)
    \/ Retire(c)

SpecComments == InitComments /\ [][CommentNext]_vars

\* the listing handlers, one request at a time, over a store that holds np
\* posts and nc comments of post 1, for every configured page size
InitList ==
  /\ \E np \in 0..MaxDocs, nc \in 0..MaxDocs :
       /\ posts = [i \in 1..np |->
                     [author |-> IF i % 2 = 1 THEN "u1" ELSE "u2",
                      title |-> <<0, 3>>, body |-> <<0, 100>>,
                      topic |-> 1 + (i % 2), date |-> i,
                      comments |-> IF i = 1 THEN Ascending(1..nc) ELSE <<>>]]
       /\ comments = [i \in 1..nc |->
                        [post |-> 1, email |-> <<0, 8, TRUE>>, title |-> <<0, 3>>,
                         body |-> <<0, 10>>, date |-> np + i]]
       /\ users = [u \in Users |->
                     Ascending({i \in 1..np : (i % 2 = 1) <=> (u = "u1")})]
       /\ now = np + nc + 1
       /\ lastId = [post |-> np, topic |-> 2, comment |-> nc]
  /\ topics = <<[id |-> 1, name |-> <<0, "c">>], [id |-> 2, name |-> <<0, "a">>]>>
  /\ MAX_DOCS_PER_FETCH \in 1..MaxFetch
  /\ reqs = [c \in Conns |-> Idle]
  /\ accepted = 0

ListNext ==
  \E c \in {1} :
    \/ posts_get_arrive(c) \/ posts_get_pageCount(c) \/ posts_get_topicFind(c)
    \/ posts_get_handler(c)
    \/ comments_get_arrive(c) \/ comments_get_pageCount(c)
    \/ comments_get_handler(c)
    \/ Retire(c)

SpecList == InitList /\ [][ListNext]_vars

\* ================================================================ claims

\* C1: PUT/DELETE /posts/:postid with valid input by an authenticated
\* principal: when no post has the id the handler answers 404, whoever asks;
\* when the post exists and its author is another principal it answers 403
\* and the request has changed nothing in the store.
C1_OwnershipGuard ==
  [][\A c \in Conns :
      LET q == reqs[c]
          r == reqs'[c]
      IN (/\ q.kind \in {"post_put", "post_delete"}
          /\ q.pc = "handler" /\ r.pc # "handler" /\ q.errors = {})
         => /\ q.postid \notin DOMAIN posts => r.pc = "done" /\ r.status = 404
            /\ (q.postid \in DOMAIN posts /\ posts[q.postid].author # q.user)
                 => /\ r.pc = "done" /\ r.status = 403 /\ ~r.wrote
                    /\ store' = store]_vars

C1_Witness ==
  \E c \in Conns :
    /\ reqs[c].kind = "post_put" /\ reqs[c].status = 403
    /\ reqs[c].postid \in DOMAIN posts
    /\ posts[reqs[c].postid].author # reqs[c].user

\* C5: no two Topic records have the same name, in every reachable state,
\* concurrent POST /posts requests included.
C5_UniqueTopicNames ==
  \A i, j \in 1..Len(topics) : topics[i].name = topics[j].name => i = j

\* C6: two runs of the POST /posts topic sanitizer, one after the other, with
\* the same topic name resolve to the same Topic id; the second run inserts
\* no Topic, and the posts they create carry that id.
PastSanitizer(q) ==
  q.kind = "post_post" /\ q.pc \in {"handler", "userSave", "done"} /\ q.user # NoUser

C6_SequentialDedup ==
  \A c, d \in Conns :
    (/\ PastSanitizer(reqs[c]) /\ PastSanitizer(reqs[d])
     /\ reqs[c].seq < reqs[d].seq /\ reqs[c].asked = reqs[d].asked)
    => /\ reqs[d].topic = reqs[c].topic
       /\ ~reqs[d].made
       /\ \A q \in {reqs[c], reqs[d]} :
            (q.result # <<>> /\ q.result[1] \in DOMAIN posts)
            => posts[q.result[1]].topic = reqs[c].topic[1]

C6_Witness ==
  \E c, d \in Conns :
    /\ reqs[c].kind = "post_post" /\ reqs[d].kind = "post_post"
    /\ reqs[c].status = 200 /\ reqs[d].status = 200
    /\ reqs[c].seq < reqs[d].seq /\ reqs[c].asked = reqs[d].asked
    /\ reqs[c].made /\ ~reqs[d].made
    /\ posts[reqs[d].result[1]].topic = posts[reqs[c].result[1]].topic

\* C9: a PUT /posts/:postid that updates changes, of the post, only the
\* fields title, body and topic present in the request, to the values of the
\* request, and no other post; no step changes a stored post's author or
\* date, and a post is created with the creating principal as its author.
C9_PutFrame ==
  [][/\ \A c \in Conns :
         LET q == reqs[c] IN
         (q.kind = "post_put" /\ q.pc = "update" /\ reqs'[c].pc = "done")
         => /\ DOMAIN posts' = DOMAIN posts
            /\ \A id \in DOMAIN posts \ {q.postid} : posts'[id] = posts[id]
            /\ q.postid \in DOMAIN posts
                 => LET old == posts[q.postid]
                        new == posts'[q.postid]
                    IN /\ new.author = old.author /\ new.date = old.date
                       /\ new.comments = old.comments
                       /\ new.title = IF q.title = Undefined THEN old.title ELSE q.title
                       /\ new.body = IF q.body = Undefined THEN old.body ELSE q.body
                       /\ new.topic = IF q.topic = Undefined THEN old.topic
                                                              ELSE q.topic[1]
     /\ \A id \in DOMAIN posts' :
         IF id \in DOMAIN posts
           THEN posts'[id].author = posts[id].author /\ posts'[id].date = posts[id].date
           ELSE \E c \in Conns :
                  /\ reqs[c].kind = "post_post" /\ reqs'[c].result = <<id>>
                  /\ posts'[id].author = reqs[c].user]_vars

C9_Witness ==
  \E c \in Conns :
    /\ reqs[c].kind = "post_put" /\ reqs[c].status = 200 /\ reqs[c].wrote
    /\ reqs[c].title = Undefined /\ reqs[c].body # Undefined
    /\ posts[reqs[c].postid].body = reqs[c].body
    /\ posts[reqs[c].postid].title # Undefined

\* C10: a POST /posts answered with 400 has changed nothing in the store: it
\* has created or modified no Post, no Topic and no User.
C10_RejectedPostWritesNothing ==
  \A c \in Conns :
    (reqs[c].kind = "post_post" /\ reqs[c].status = 400) => ~reqs[c].wrote


\* C7: in every handler of posts and comments, a request with an unmet
\* validation rule is answered with 400 and its store operation is not
\* executed.
C7_InvalidNeverRuns ==
  \A c \in Conns :
    (reqs[c].pc = "done" /\ reqs[c].errors # {})
    => reqs[c].status = 400 /\ ~reqs[c].ran

\* C8: when POST /posts/:postid/comments inserts its Comment, the Post the
\* comment references is stored, whatever DELETE ran since the handler looked
\* the post up; a valid request for a post that is not stored is answered
\* with 404 and inserts nothing.
C8_ParentExistsAtInsert ==
  [][\A c \in Conns :
      LET q == reqs[c] IN
      /\ (q.kind = "comment_post" /\ q.pc = "saveComment" /\ reqs'[c].pc = "savePost")
         => q.postid \in DOMAIN posts
      /\ (/\ q.kind = "comment_post" /\ q.pc = "handler" /\ reqs'[c].pc # "handler"
          /\ q.errors = {} /\ q.postid \notin DOMAIN posts)
         => reqs'[c].status = 404 /\ comments' = comments]_vars


\* the page and limit a listing request asked for, with the defaults
AskedPage(q) == Default(q.qpage, 1)[1]
AskedLimit(q) == Default(q.qlimit, MAX_DOCS_PER_FETCH)[1]
Listing(q) == q.kind \in {"posts_get", "comments_get"}

\* C2: for every integer page of the query string and every document count
\* the page sanitizer yields an index that is not negative and is below
\* ceil(docCount / MAX_DOCS_PER_FETCH) or 0, and 0 for a page out of range.
C2_PageIndexInRange ==
  \A c \in Conns :
    LET q == reqs[c]
        pages == Ceil(q.docCount, MAX_DOCS_PER_FETCH)
    IN (Listing(q) /\ q.pc = "handler" /\ IsInt(Default(q.qpage, 1)))
       => /\ q.page[1] >= 0
          /\ q.page[1] < pages \/ q.page[1] = 0
          /\ (AskedPage(q) < 1 \/ AskedPage(q) > pages) => q.page[1] = 0

\* C3: for a page >= 1 and a limit in 0..20 the skip a listing handler hands
\* to the store is at least 0 and below docCount + MAX_DOCS_PER_FETCH, with
\* docCount the count its page sanitizer read.
C3_SkipBounded ==
  \A c \in Conns :
    LET q == reqs[c] IN
    (/\ Listing(q) /\ q.pc = "done" /\ q.ran
     /\ AskedPage(q) >= 1 /\ AskedLimit(q) \in 0..20)
    => /\ q.skip = q.page[1] * MAX_DOCS_PER_FETCH
       /\ 0 <= q.skip /\ q.skip < q.docCount + MAX_DOCS_PER_FETCH

C3_Witness ==
  \E c \in Conns :
    /\ reqs[c].kind = "comments_get" /\ reqs[c].status = 200
    /\ AskedPage(reqs[c]) >= 2 /\ reqs[c].skip > 0 /\ reqs[c].result # <<>>

\* C4: a listing request whose limit is an integer outside 0..20 is answered
\* with 200 and an empty list, its effective limit being 0; one whose limit is
\* in 0..20 keeps that limit and is answered with at most that many documents.
C4_LimitBoundsResult ==
  \A c \in Conns :
    LET q == reqs[c] IN
    (Listing(q) /\ q.pc = "done" /\ q.status = 200)
    => IF AskedLimit(q) \in 0..20
         THEN q.limit = <<AskedLimit(q)>> /\ Len(q.result) <= AskedLimit(q)
         ELSE q.limit = <<0>> /\ q.result = <<>>

====
